---- MODULE Spec2Model ----
(***************************************************************************)
(* Transfer orchestrator of rclone_plus (TransferService in                *)
(* src/main/services/ssh.service.ts) for one job: the setup steps of       *)
(* startJob, the upload worker with processItem (the packager), the        *)
(* download worker with downloadFileToDestination and the bulk extract,    *)
(* and pauseJob / resumeJob / cancelJob; with it retryItem, the config     *)
(* store (saveJob, deleteServer), the session pool and listDirectory of    *)
(* SSHService, the renderer's TransferPanel, the progress callback of an   *)
(* upload, and a second job on the same hosts, each under a specification  *)
(* of its own.                                                             *)
(*                                                                         *)
(* The main process is one JavaScript event loop: code between two awaits  *)
(* runs atomically.  Every action below is one such segment: it starts     *)
(* when the awaited remote command (or timer) returns, runs every          *)
(* continuation that becomes runnable without further I/O (the rest of     *)
(* the async function, the Promise.all joins, the callers' continuations)  *)
(* and stops where each task waits for its next remote command.  A pc      *)
(* value names the command a task is waiting for, so a task whose pc is    *)
(* "zip" has a zip command in flight.                                      *)
(*                                                                         *)
(* The segments are written as functions from a state record to a state    *)
(* record, named after the methods they come from.                         *)
(***************************************************************************)
EXTENDS Integers, Sequences, FiniteSets, TLC

\* Bounds of the model: the largest number of batches the planner may produce
\* and the number of remote failures one run may suffer.
MaxBatches == 2
MaxFaults == 1

\* Bounds of the planner's inputs: the number of enumerated files, the largest
\* file size and the largest size limit.
MaxFiles == 3
MaxSize == 3
MaxLimit == 2

\* Bound of the pool: the number of ssh2 clients connect creates in one run.
MaxClients == 3

\* Bound of listDirectory's inputs: the number of entries of the directory,
\* which also bounds their names, the limit and the offset.
MaxEntries == 3

\* Bound of the panel: the number of destination blocks the operator adds.
MaxDestinations == 2

\* Bound of the upload progress: the largest number of parts of the split job
\* whose upload reports progress.
MaxParts == 3

\* The job's hosts: job.sourceServerId and job.destinationServerIds.
Src == "src"
destinationServerIds == <<"d1", "d2">>
Dests == {destinationServerIds[i] : i \in 1..Len(destinationServerIds)}
Hosts == {Src} \cup Dests
NoError == "none"
ErrorMsg == "error"

VARIABLES
    active,          \* activeJobs.has(job.id)
    isPaused,        \* activeJobs.get(job.id).isPaused
    isCancelled,     \* activeJobs.get(job.id).isCancelled
    job,             \* the job's options: autoExtract, deleteFromDrive, deleteAfterUpload
    zipInfo,         \* job._zipInfo: needsSplit, actualParts
    items,           \* job.items: records status, error, retryCount
    uploadedFiles,   \* uploadedFiles.get(job.id): UploadedFileInfo list
    uploadComplete,  \* the local flag of startJob
    processedFiles,  \* the download worker's set of processed file ids
    pendingFiles,    \* the download worker's snapshot of files still to process
    dispatched,      \* the calls of downloadFileToDestination: <<file id, dest>>
    main,            \* position of startJob itself
    prep,            \* position of prepareDestinationServer, per destination
    pk,              \* position of the upload worker / processItem
    pkI,             \* 1-based index of the batch processItem works on
    dw,              \* position of the download worker
    task,            \* position of downloadFileToDestination, per destination
    bulk,            \* position of the bulk extract, per destination
    cancelPc,        \* position of cancelJob
    jobResult,       \* "completed": the completed log and notification were emitted
    events,          \* ids of the PartUploaded events sent to the renderer, in order
    prepOk,          \* remote truth: the host is connected, has the tool and its config
    faults,          \* number of remote failures injected so far
    badParts,        \* remote truth: parts whose file list, archive or upload failed
    staged,          \* remote truth: <<part, dest>> downloaded and moved to the folder
    destFailed,      \* remote truth: <<part, dest>> with a failed destination step
    sourceParts,     \* remote truth: parts whose archive is in the source's /tmp
    stored,          \* configService's store: the items of the job as last saved
    servers,         \* configService's store: the ids of the hosts in the catalog
    plan,            \* processItem's batching: files (sizes), limitBytes, batches
    retry,           \* retryItem: the call and the job copy it works on
    connections,     \* SSHService.connections: host id -> pooled client (0: none)
    clients,         \* the ssh2 Client objects created by connect, in order
    lastCall,        \* the last call on SSHService that used a pooled session
    listing,         \* listDirectory: the entries read, limit, offset, result
    panel,           \* TransferPanel: the config being edited, the job created
    upload,          \* the progress callback of one upload: part, percent, log lines
    otherJob,        \* activeJobs.get(id) of another job on the same hosts
    killed           \* remote truth: the job's commands killed by the other job

\* The variables of the orchestrator and of the config store.
jobVars == <<active, isPaused, isCancelled, job, zipInfo, items, uploadedFiles,
             uploadComplete, processedFiles, pendingFiles, dispatched, main, prep,
             pk, pkI,
             dw, task, bulk, cancelPc, jobResult, events, prepOk, faults,
             badParts, staged, destFailed, sourceParts, stored, servers>>

vars == <<jobVars, plan, retry, connections, clients, lastCall, listing, panel,
          upload, otherJob, killed>>

St == [active |-> active, isPaused |-> isPaused, isCancelled |-> isCancelled,
       job |-> job, zipInfo |-> zipInfo, items |-> items,
       uploadedFiles |-> uploadedFiles, uploadComplete |-> uploadComplete,
       processedFiles |-> processedFiles, pendingFiles |-> pendingFiles,
       dispatched |-> dispatched,
       main |-> main, prep |-> prep, pk |-> pk, pkI |-> pkI, dw |-> dw,
       task |-> task, bulk |-> bulk, cancelPc |-> cancelPc,
       jobResult |-> jobResult, events |-> events, prepOk |-> prepOk,
       faults |-> faults, badParts |-> badParts, staged |-> staged,
       destFailed |-> destFailed, sourceParts |-> sourceParts,
       stored |-> stored, servers |-> servers]

Set(s) ==
    /\ active' = s.active
    /\ isPaused' = s.isPaused
    /\ isCancelled' = s.isCancelled
    /\ job' = s.job
    /\ zipInfo' = s.zipInfo
    /\ items' = s.items
    /\ uploadedFiles' = s.uploadedFiles
    /\ uploadComplete' = s.uploadComplete
    /\ processedFiles' = s.processedFiles
    /\ pendingFiles' = s.pendingFiles
    /\ dispatched' = s.dispatched
    /\ main' = s.main
    /\ prep' = s.prep
    /\ pk' = s.pk
    /\ pkI' = s.pkI
    /\ dw' = s.dw
    /\ task' = s.task
    /\ bulk' = s.bulk
    /\ cancelPc' = s.cancelPc
    /\ jobResult' = s.jobResult
    /\ events' = s.events
    /\ prepOk' = s.prepOk
    /\ faults' = s.faults
    /\ badParts' = s.badParts
    /\ staged' = s.staged
    /\ destFailed' = s.destFailed
    /\ sourceParts' = s.sourceParts
    /\ stored' = s.stored
    /\ servers' = s.servers
    /\ UNCHANGED <<plan, retry, connections, clients, lastCall, listing, panel,
                   upload, otherJob, killed>>

JobInputs == [autoExtract : BOOLEAN, deleteFromDrive : BOOLEAN,
              deleteAfterUpload : BOOLEAN]

InitJob ==
    /\ active = FALSE
    /\ isPaused = FALSE
    /\ isCancelled = FALSE
    /\ job = [autoExtract |-> FALSE, deleteFromDrive |-> FALSE,
              deleteAfterUpload |-> FALSE]
    /\ zipInfo = [needsSplit |-> FALSE, actualParts |-> 0]
    /\ items = <<>>
    /\ uploadedFiles = <<>>
    /\ uploadComplete = FALSE
    /\ processedFiles = {}
    /\ pendingFiles = <<>>
    /\ dispatched = <<>>
    /\ main = "idle"
    /\ prep = [d \in Dests |-> "idle"]
    /\ pk = "idle"
    /\ pkI = 0
    /\ dw = "idle"
    /\ task = [d \in Dests |-> "idle"]
    /\ bulk = [d \in Dests |-> "idle"]
    /\ cancelPc = "idle"
    /\ jobResult = "none"
    /\ events = <<>>
    /\ prepOk = [h \in Hosts |-> TRUE]
    /\ faults = 0
    /\ badParts = {}
    /\ staged = {}
    /\ destFailed = {}
    /\ sourceParts = {}
    /\ stored = <<>>
    /\ servers = Hosts

\* No file list has been given to the planner.
NoPlan == [files |-> <<>>, limitBytes |-> 0, batches |-> <<>>, done |-> FALSE]

\* retryItem has not been called.
NoRetry == [called |-> FALSE, failed |-> FALSE, pk |-> "idle", item |-> <<>>]

\* No call has used a pooled session.
NoCall == [id |-> "none", result |-> "none", gone |-> FALSE]

\* listDirectory has read no directory.
NoListing == [list |-> <<>>, limit |-> 0, offset |-> 0, items |-> <<>>,
              total |-> 0, hasMore |-> FALSE, done |-> FALSE]

\* The panel's initial config (no source, no destination) and no job created.
NoJob == [sourceServerId |-> "", sourceFolder |-> "", destinationServerIds |-> <<>>,
          destinationFolder |-> ""]
NewPanel == [sourceServerId |-> "", sourceFolder |-> "", destinations |-> <<>>,
             created |-> FALSE, job |-> NoJob]

\* The services after construction: retryItem not called, an empty pool, the
\* panel not filled in, no other job.
ServicesInit ==
    /\ retry = NoRetry
    /\ connections = [h \in Hosts |-> 0]
    /\ clients = <<>>
    /\ lastCall = NoCall
    /\ panel = NewPanel
    /\ otherJob = [active |-> FALSE, isPaused |-> FALSE, isCancelled |-> FALSE,
                   cancelPc |-> "idle"]
    /\ killed = {}

\* No upload is reporting progress.
NoUpload == [split |-> FALSE, n |-> 1, i |-> 0, percent |-> 0, progress |-> 0,
             lastLoggedPercent |-> 0, lines |-> 0]

Init ==
    /\ InitJob
    /\ ServicesInit
    /\ plan = NoPlan
    /\ listing = NoListing
    /\ upload = NoUpload

(***************************************************************************)
(* Remote commands.  sshService.exec and execWithProgress resolve when the *)
(* stream closes, whatever the exit status, and reject when there is no    *)
(* pooled connection or the channel cannot be opened ("throw").            *)
(* rcloneService.upload / download / delete catch that rejection and       *)
(* return success=false ("err").  A host whose preparation failed cannot   *)
(* run a command successfully; on a prepared host a failure is a fault     *)
(* drawn from the budget MaxFaults.                                        *)
(***************************************************************************)
Budget(s) == s.faults < MaxFaults

ExecOutcomes(s, h) ==
    IF s.prepOk[h]
    THEN {"ok"} \cup (IF Budget(s) THEN {"throw"} ELSE {})
    ELSE {"err", "throw"}

DriverOutcomes(s, h) ==
    IF s.prepOk[h]
    THEN {"ok"} \cup (IF Budget(s) THEN {"err"} ELSE {})
    ELSE {"err"}

\* A part whose upload failed is not in the store: its download cannot succeed.
DownloadOutcomes(s, d) ==
    IF Head(s.pendingFiles) \in s.badParts THEN {"err"} ELSE DriverOutcomes(s, d)

Spend(s, h, o) ==
    [s EXCEPT !.faults = IF s.prepOk[h] /\ o # "ok" THEN @ + 1 ELSE @]

(***************************************************************************)
(* Broadcast helpers.                                                      *)
(***************************************************************************)
FreshDestinations ==
    [d \in Dests |-> [status |-> "pending", progress |-> 0, error |-> NoError]]

\* files.findIndex(f => f.id === id), 1-based; 0 when there is none.
IndexOf(files, id) ==
    LET S == {k \in 1..Len(files) : files[k].id = id}
    IN  IF S = {} THEN 0 ELSE CHOOSE k \in S : \A j \in S : k <= j

broadcastFileUploaded(s, fileInfo) ==
    LET files == s.uploadedFiles
        existingIndex == IndexOf(files, fileInfo.id)
    IN  [s EXCEPT !.uploadedFiles =
                      IF existingIndex > 0
                      THEN [files EXCEPT ![existingIndex] = fileInfo]
                      ELSE Append(files, fileInfo),
                  !.events = Append(@, fileInfo.id)]

broadcastFileDestinationProgress(s, fileId, serverId, status, progress, error) ==
    LET k == IndexOf(s.uploadedFiles, fileId)
    IN  IF k = 0
        THEN s
        ELSE [s EXCEPT !.uploadedFiles[k].destinations[serverId] =
                 [status |-> status, progress |-> progress,
                  error |-> IF error # NoError THEN error ELSE @.error]]

(***************************************************************************)
(* startJob: the end of the job.                                           *)
(***************************************************************************)
\* finally { activeJobs.delete; downloadQueue.delete; uploadedFiles.delete }
startJobFinally(s) ==
    [s EXCEPT !.active = FALSE, !.uploadedFiles = <<>>, !.main = "returned"]

\* catch (error) { logService.error("Transfer job failed") }
startJobCatch(s) == startJobFinally([s EXCEPT !.jobResult = "failed"])

\* After Promise.all([uploadWorker, downloadWorker]): the completed log and the
\* "Transfer Complete" notification.
startJobCompleted(s) == startJobFinally([s EXCEPT !.jobResult = "completed"])

\* await Promise.all([uploadWorker, downloadWorker])
joinWorkers(s) ==
    IF s.pk = "done" /\ s.dw = "done" THEN startJobCompleted(s) ELSE s

(***************************************************************************)
(* The upload worker and processItem.                                      *)
(***************************************************************************)
\* The number of archives processItem makes.
NumBatches(s) == IF s.zipInfo.needsSplit THEN s.zipInfo.actualParts ELSE 1

\* The id of the file published for batch i: item.id + "_part" + partNum.
PartIdConst(i) == 1
PartId(i) == i

\* The name of the archive of the batch processItem works on:
\* batches.length === 1 ? base.zip : base.partNNN.zip; base.zip without split.
partFileName(s) ==
    IF s.zipInfo.needsSplit /\ NumBatches(s) # 1
    THEN <<"base", "part", s.pkI, "zip">>
    ELSE <<"base", "zip">>

\* The loop over items has ended (or was left by break).
uploadWorkerEnd(s) ==
    joinWorkers([s EXCEPT !.uploadComplete = TRUE, !.pk = "done"])

\* processItem: catch (error) { item.status = 'failed'; item.error = ... }
processItemFail(s) ==
    uploadWorkerEnd([s EXCEPT !.items[1].status = "failed",
                              !.items[1].error = ErrorMsg])

\* processItem: item.status = 'uploaded'; saveJob; back in the upload worker the
\* item is pushed on the download queue.
processItemUploaded(s) ==
    LET s1 == [s EXCEPT !.items[1].status = "uploaded"]
    IN  uploadWorkerEnd([s1 EXCEPT !.stored = s1.items])

\* End of one iteration of the batch loop.
nextBatch(s) ==
    IF s.pkI < NumBatches(s)
    THEN [s EXCEPT !.pkI = @ + 1, !.pk = "filelist"]
    ELSE processItemUploaded(s)

\* processItem up to its first await; it returns at once when the source
\* server is not in the catalog.
processItem(s) ==
    LET s1 == [s EXCEPT !.items[1].status = "zipping"]
    IN  IF Src \notin s.servers THEN uploadWorkerEnd(s)
        ELSE IF s.zipInfo.needsSplit
        THEN [s1 EXCEPT !.pk = "find", !.pkI = 0]
        ELSE [s1 EXCEPT !.pk = "zip", !.pkI = 1]

\* The upload worker's loop head for the job's item.
uploadWorker(s) ==
    IF ~s.active \/ s.isCancelled THEN uploadWorkerEnd(s)
    ELSE IF s.isPaused THEN [s EXCEPT !.pk = "pause"]
    ELSE processItem(s)

\* while (jobState?.isPaused) await sleep(1000): the sleep has ended.
uploadWorkerWake(s) ==
    IF s.isPaused THEN [s EXCEPT !.pk = "pause"] ELSE processItem(s)

\* find ... stat returned: the batches are computed and the loop starts.
findReturn(s, o, n) ==
    IF o = "throw" THEN processItemFail(Spend(s, Src, o))
    ELSE LET s1 == [s EXCEPT !.zipInfo.actualParts = n]
         IN  IF n = 0 THEN processItemUploaded(s1)
             ELSE [s1 EXCEPT !.pkI = 1, !.pk = "filelist"]

\* cat > fileListPath returned.
fileListReturn(s, o) ==
    IF o = "throw"
    THEN processItemFail([Spend(s, Src, o) EXCEPT !.badParts = @ \cup {s.pkI}])
    ELSE [s EXCEPT !.pk = "zip"]

\* zip returned: the archive of the batch is in /tmp of the source.
zipReturn(s, o) ==
    IF o = "throw"
    THEN processItemFail([Spend(s, Src, o) EXCEPT !.badParts = @ \cup {s.pkI}])
    ELSE [s EXCEPT !.sourceParts = @ \cup {s.pkI},
                   !.pk = IF s.zipInfo.needsSplit THEN "rmlist" ELSE "stat"]

\* rm -f fileListPath returned.
rmListReturn(s, o) ==
    IF o = "throw" THEN processItemFail(Spend(s, Src, o))
    ELSE [s EXCEPT !.pk = "stat"]

\* stat returned (its failure is ignored): item.status = 'uploading', the upload
\* is started.
statReturnPublishFirst(s) ==
    broadcastFileUploaded(
        [s EXCEPT !.items[1].status = "uploading", !.pk = "upload"],
        [id |-> PartId(s.pkI), fileName |-> partFileName(s),
         destinations |-> FreshDestinations])
statReturn(s) ==
    [s EXCEPT !.items[1].status = "uploading", !.pk = "upload"]

\* rcloneService.upload returned (its result is not read): the part is published.
uploadReturn(s, o) ==
    LET s1 == [Spend(s, Src, o) EXCEPT
                  !.badParts = IF o = "ok" THEN @ ELSE @ \cup {s.pkI}]
        s2 == broadcastFileUploaded(s1,
                  [id |-> PartId(s.pkI), fileName |-> partFileName(s),
                   destinations |-> FreshDestinations])
    IN  IF s.job.deleteAfterUpload THEN [s2 EXCEPT !.pk = "rmpart"]
        ELSE nextBatch(s2)

\* rm -f partPath returned.
rmPartReturn(s, o) ==
    IF o = "throw" THEN processItemFail(Spend(s, Src, o))
    ELSE nextBatch([s EXCEPT !.sourceParts = @ \ {s.pkI}])

(***************************************************************************)
(* processItem: grouping the files into batches by size limit.  A file is  *)
(* its index in the enumeration; files[i] is its size.                     *)
(***************************************************************************)
\* batches.push(currentBatch); currentBatch = []; currentBatchSize = 0
dropCurrent(acc) ==
    [acc EXCEPT !.currentBatch = <<>>, !.currentBatchSize = 0]
pushCurrent(acc) ==
    [batches |-> Append(acc.batches, acc.currentBatch),
     currentBatch |-> <<>>, currentBatchSize |-> 0]

\* currentBatchSize + file.size > limitBytes && currentBatch.length > 0
wouldExceedNever(acc, size, limitBytes) == FALSE
wouldExceed(acc, size, limitBytes) ==
    acc.currentBatchSize + size > limitBytes /\ Len(acc.currentBatch) > 0

\* A single file that exceeds the limit is put in its own batch.
ownBatchNoFlush(acc, i) == [acc EXCEPT !.batches = Append(@, <<i>>)]
ownBatch(acc, i) ==
    LET a1 == IF Len(acc.currentBatch) > 0 THEN pushCurrent(acc) ELSE acc
    IN  [a1 EXCEPT !.batches = Append(@, <<i>>)]

\* The body of for (const file of files), for the i-th file.
groupFile(acc, i, size, limitBytes) ==
    IF size > limitBytes THEN ownBatch(acc, i)
    ELSE LET a1 == IF wouldExceed(acc, size, limitBytes) THEN pushCurrent(acc)
                   ELSE acc
         IN  [a1 EXCEPT !.currentBatch = Append(@, i),
                        !.currentBatchSize = @ + size]

\* The loop over the first n files.
RECURSIVE groupFiles(_, _, _)
groupFiles(files, limitBytes, n) ==
    IF n = 0
    THEN [batches |-> <<>>, currentBatch |-> <<>>, currentBatchSize |-> 0]
    ELSE groupFile(groupFiles(files, limitBytes, n - 1), n, files[n], limitBytes)

\* The batches of a file list: the loop, then the last batch.
Batches(files, limitBytes) ==
    LET acc == groupFiles(files, limitBytes, Len(files))
    IN  IF Len(acc.currentBatch) > 0 THEN Append(acc.batches, acc.currentBatch)
        ELSE acc.batches

(***************************************************************************)
(* The download worker.                                                    *)
(***************************************************************************)
AllIdle == [d \in Dests |-> "idle"]

\* Mark main item as completed; the download worker returns.
downloadWorkerEnd(s) ==
    joinWorkers([s EXCEPT
        !.items = [k \in DOMAIN s.items |-> [s.items[k] EXCEPT !.status = "completed"]],
        !.dw = "done"])

\* Step 4b: the bulk extract is started on every destination, if configured.
\* A destination that is not in the catalog is skipped.
bulkExtract(s) ==
    IF s.job.autoExtract /\ s.zipInfo.needsSplit /\ Dests \cap s.servers # {}
    THEN [s EXCEPT !.dw = "bulk",
                   !.bulk = [d \in Dests |->
                                IF d \in s.servers THEN "unzip" ELSE "done"]]
    ELSE downloadWorkerEnd(s)

\* downloadFileToDestination up to its first await; it returns at once when
\* the destination server is not in the catalog.
downloadFileToDestination(s, fileId, d) ==
    LET s1 == [s EXCEPT !.dispatched = Append(@, <<fileId, d>>)]
    IN  IF d \notin s.servers THEN [s1 EXCEPT !.task[d] = "done"]
        ELSE [broadcastFileDestinationProgress(s1, fileId, d, "downloading",
                                               0, NoError)
                 EXCEPT !.task[d] = "download"]

\* job.destinationServerIds.map(destId => downloadFileToDestination(...)), from
\* the i-th destination on.
RECURSIVE startDownloads(_, _, _)
startDownloads(s, fileId, i) ==
    IF i > Len(destinationServerIds) THEN s
    ELSE startDownloads(downloadFileToDestination(s, fileId, destinationServerIds[i]),
                        fileId, i + 1)

RECURSIVE downloadWorkerLoop(_)
RECURSIVE startFile(_)

\* Promise.all(downloadPromises) has resolved: the file is processed and the
\* worker goes on with the next pending file or the next turn of its loop.
fileDone(s) ==
    LET s2 == [s EXCEPT !.task = AllIdle,
                        !.processedFiles = @ \cup {Head(s.pendingFiles)},
                        !.pendingFiles = Tail(@)]
    IN  IF s2.pendingFiles # <<>> THEN startFile(s2)
        ELSE downloadWorkerLoop(s2)

\* for (const file of pendingFiles): the tasks of the next file are started.
startFile(s) ==
    LET s1 == startDownloads(s, Head(s.pendingFiles), 1)
    IN  IF \A d \in Dests : s1.task[d] = "done" THEN fileDone(s1) ELSE s1

\* uploadedFiles.filter(f => !processedFiles.has(f.id)), as ids.
PendingFilesAll(s) == [k \in 1..Len(s.uploadedFiles) |-> s.uploadedFiles[k].id]
PendingFilesAfterUpload(s) ==
    IF s.uploadComplete
    THEN LET ids == [k \in 1..Len(s.uploadedFiles) |-> s.uploadedFiles[k].id]
             unprocessed(id) == id \notin s.processedFiles
         IN  SelectSeq(ids, unprocessed)
    ELSE <<>>
PendingFiles(s) ==
    LET ids == [k \in 1..Len(s.uploadedFiles) |-> s.uploadedFiles[k].id]
        unprocessed(id) == id \notin s.processedFiles
    IN  SelectSeq(ids, unprocessed)

\* One turn of while (true).
downloadWorkerLoop(s) ==
    IF ~s.active \/ s.isCancelled THEN bulkExtract(s)
    ELSE IF /\ s.uploadComplete
            /\ Cardinality(s.processedFiles) >= Len(s.uploadedFiles)
            /\ Len(s.uploadedFiles) > 0
    THEN bulkExtract(s)
    ELSE IF PendingFiles(s) = <<>> THEN [s EXCEPT !.dw = "sleep"]
    ELSE startFile([s EXCEPT !.dw = "files", !.pendingFiles = PendingFiles(s)])

\* One downloadFileToDestination has returned; when all have, Promise.all
\* resolves, the file is processed and the worker goes on.
taskDoneNoWait(s, d) == fileDone(s)
taskDone(s, d) ==
    LET s1 == [s EXCEPT !.task[d] = "done"]
    IN  IF \E e \in Dests : s1.task[e] # "done" THEN s1 ELSE fileDone(s1)

CurrentFile(s) == Head(s.pendingFiles)

\* Mark destination as completed.
taskCompleted(s, d) ==
    taskDone(broadcastFileDestinationProgress(s, CurrentFile(s), d,
                                              "completed", 100, NoError), d)

\* catch (error): the destination is marked failed.
taskFailed(s, d) ==
    taskDone(broadcastFileDestinationProgress(
                 [s EXCEPT !.destFailed = @ \cup {<<CurrentFile(s), d>>}],
                 CurrentFile(s), d, "failed", 0, ErrorMsg), d)

\* Delete from Drive if configured, then completed.
afterStage(s, d) ==
    IF s.job.deleteFromDrive THEN [s EXCEPT !.task[d] = "delete"]
    ELSE taskCompleted(s, d)

\* rcloneService.download returned (its result is not read).
downloadReturn(s, d, o) ==
    LET s1 == [(IF CurrentFile(s) \in s.badParts THEN s ELSE Spend(s, d, o)) EXCEPT
                  !.destFailed = IF o = "ok" THEN @ ELSE @ \cup {<<CurrentFile(s), d>>}]
    IN  IF s.job.autoExtract /\ ~s.zipInfo.needsSplit
        THEN [broadcastFileDestinationProgress(s1, CurrentFile(s), d,
                                               "extracting", 100, NoError)
                 EXCEPT !.task[d] = "unzip"]
        ELSE [s1 EXCEPT !.task[d] = "mv"]

\* The percentages rclone's output may carry: the number before the first '%'
\* of a chunk.
Percents == {0, 50, 100}

\* A chunk of rclone's output with a percentage has arrived: the onProgress
\* callback broadcasts it as it is.
downloadProgress(s, d, percent) ==
    broadcastFileDestinationProgress(s, CurrentFile(s), d, "downloading",
                                     percent, NoError)

\* unzip -o downloadPath -d destinationFolder returned.
unzipReturn(s, d, o) ==
    IF o = "throw" THEN taskFailed(Spend(s, d, o), d)
    ELSE [s EXCEPT !.task[d] = "rmtmp"]

\* rm -f downloadPath returned.
rmTmpReturn(s, d, o) ==
    IF o = "throw" THEN taskFailed(Spend(s, d, o), d) ELSE afterStage(s, d)

\* mv downloadPath destZipPath returned.
mvReturn(s, d, o) ==
    IF o = "throw" THEN taskFailed(Spend(s, d, o), d)
    ELSE afterStage(
             [s EXCEPT !.staged =
                 IF o = "ok" /\ <<CurrentFile(s), d>> \notin s.destFailed
                 THEN @ \cup {<<CurrentFile(s), d>>} ELSE @], d)

\* rcloneService.delete returned (its result is not read).
deleteReturn(s, d, o) ==
    taskCompleted(
        [Spend(s, d, o) EXCEPT
            !.destFailed = IF o = "ok" THEN @ ELSE @ \cup {<<CurrentFile(s), d>>}], d)

\* One destination's bulk extract has ended; when all have, Promise.all resolves.
bulkDone(s, d) ==
    LET s1 == [s EXCEPT !.bulk[d] = "done"]
    IN  IF \E e \in Dests : s1.bulk[e] # "done" THEN s1
        ELSE downloadWorkerEnd(s1)

\* cd destinationFolder && unzip -o "base.part*.zip" returned.
bulkUnzipReturn(s, d, o) ==
    IF o = "throw" THEN bulkDone(Spend(s, d, o), d)
    ELSE [s EXCEPT !.bulk[d] = "rm"]

\* cd destinationFolder && rm "base.part*.zip" returned.
bulkRmReturn(s, d) == bulkDone(s, d)

(***************************************************************************)
(* startJob: setup.                                                        *)
(***************************************************************************)
\* activeJobs.set(job.id, ...); the source server is looked up in the catalog
\* ("Source server not found" is thrown) and connected.
startJob(s, j) ==
    LET s1 == [s EXCEPT !.active = TRUE, !.isPaused = FALSE,
                        !.isCancelled = FALSE, !.job = j]
    IN  IF Src \notin s.servers THEN startJobCatch(s1)
        ELSE [s1 EXCEPT !.main = "src_connect"]

\* sshService.connect(sourceServer) returned (its result is not read);
\* rcloneService.checkInstalled is called.
srcConnectReturn(s, ok) ==
    [s EXCEPT !.prepOk[Src] = ok, !.faults = IF ok THEN @ ELSE @ + 1,
              !.main = "src_check"]

\* checkInstalled returned: install, or deploy the config.
srcCheckReturn(s, installed) ==
    [s EXCEPT !.main = IF installed THEN "src_config" ELSE "src_install"]

\* rcloneService.install returned (its result is not read).
srcInstallReturn(s) == [s EXCEPT !.main = "src_config"]

\* copyConfigToServer returned (its result is not read); prepareSourceFiles
\* runs du.
srcConfigReturn(s) == [s EXCEPT !.main = "src_du"]

\* Step 4: both workers are started.
startWorkers(s) ==
    [uploadWorker(s) EXCEPT !.dw = "sleep0", !.main = "workers"]

\* prepareSourceFiles: du returned; the item is created, the job saved and the
\* destinations' preparation started.
prepareSourceFilesReturn(s, o, needsSplit) ==
    IF o = "throw" THEN startJobCatch(Spend(s, Src, o))
    ELSE LET item == [status |-> "pending", error |-> NoError, retryCount |-> 0]
             s1 == [s EXCEPT
                       !.zipInfo = [needsSplit |-> needsSplit, actualParts |-> 0],
                       !.items = <<item>>,
                       !.stored = <<item>>,
                       !.main = "dest_prep",
                       !.prep = [d \in Dests |->
                                    IF d \in s.servers THEN "connect" ELSE "done"]]
         IN  IF \A d \in Dests : s1.prep[d] = "done" THEN startWorkers(s1)
             ELSE s1

\* prepareDestinationServer: one step returned.  Nothing in it throws: connect,
\* install and copyConfigToServer return success=false, checkInstalled returns
\* installed=false.
prepareDestinationServer(s, d, o, installed) ==
    LET s1 == [Spend(s, d, o) EXCEPT !.prepOk[d] = @ /\ o = "ok"]
        pc == s.prep[d]
        s2 == [s1 EXCEPT !.prep[d] =
                  CASE pc = "connect" -> "check"
                    [] pc = "check" -> IF installed THEN "config" ELSE "install"
                    [] pc = "install" -> "config"
                    [] OTHER -> "done"]
    IN  IF \A e \in Dests : s2.prep[e] = "done" THEN startWorkers(s2) ELSE s2

(***************************************************************************)
(* pauseJob, resumeJob, cancelJob.                                         *)
(***************************************************************************)
pauseJob(s) == IF s.active THEN [s EXCEPT !.isPaused = TRUE] ELSE s

resumeJob(s) == IF s.active THEN [s EXCEPT !.isPaused = FALSE] ELSE s

\* cancelJob up to its first await: the flag is set and the first pkill issued.
\* The pkill commands (two on the source, two per destination, one after the
\* other, errors ignored) change nothing of the orchestrator's state; their
\* sequence is one waiting position.
cancelJob(s) ==
    IF s.active THEN [s EXCEPT !.isCancelled = TRUE, !.cancelPc = "killing"] ELSE s

cancelJobReturn(s) == [s EXCEPT !.cancelPc = "done"]

(***************************************************************************)
(* configService.deleteServer: the host is filtered out of the stored      *)
(* catalog.                                                                *)
(***************************************************************************)
deleteServer(s, id) == [s EXCEPT !.servers = @ \ {id}]

(***************************************************************************)
(* retryItem.  It works on the job that configService.getJobById reads     *)
(* from the store, a copy of what saveJob wrote last, and only when the    *)
(* item stored there is 'failed'.  r is the retry record; known tells      *)
(* whether the call names the job and item of this run.  The record keeps  *)
(* whether the call named the item of this run while it was 'failed' in    *)
(* memory.                                                                 *)
(***************************************************************************)
retryItem(r, s, known) ==
    LET r1 == [r EXCEPT !.called = TRUE,
                        !.failed = /\ known
                                   /\ s.items # <<>>
                                   /\ s.items[1].status = "failed"]
    IN  IF ~known \/ s.stored = <<>> THEN r1
        ELSE IF s.stored[1].status # "failed" THEN r1
        ELSE [r1 EXCEPT
                 !.item = <<[s.stored[1] EXCEPT !.status = "zipping",
                                                !.error = NoError,
                                                !.retryCount = @ + 1]>>,
                 !.pk = IF Src \notin s.servers THEN "done"
                        ELSE IF s.zipInfo.needsSplit THEN "find" ELSE "zip"]

(***************************************************************************)
(* Actions.                                                                *)
(***************************************************************************)
StartJob ==
    /\ main = "idle"
    /\ \E j \in JobInputs : Set(startJob(St, j))

SrcConnectReturn ==
    /\ main = "src_connect"
    /\ \E ok \in (IF Budget(St) THEN BOOLEAN ELSE {TRUE}) :
          Set(srcConnectReturn(St, ok))

SrcCheckReturn ==
    /\ main = "src_check"
    /\ \E installed \in (IF prepOk[Src] THEN BOOLEAN ELSE {FALSE}) :
          Set(srcCheckReturn(St, installed))

SrcInstallReturn ==
    /\ main = "src_install"
    /\ Set(srcInstallReturn(St))

SrcConfigReturn ==
    /\ main = "src_config"
    /\ Set(srcConfigReturn(St))

PrepareSourceFilesReturn ==
    /\ main = "src_du"
    /\ \E o \in ExecOutcomes(St, Src) \ {"err"}, needsSplit \in BOOLEAN :
          Set(prepareSourceFilesReturn(St, o, needsSplit))

PrepareDestinationReturn(d) ==
    /\ main = "dest_prep"
    /\ prep[d] \in {"connect", "install", "config"}
    /\ \E o \in DriverOutcomes(St, d) :
          Set(prepareDestinationServer(St, d, o, FALSE))

PrepareDestinationCheckReturn(d) ==
    /\ main = "dest_prep"
    /\ prep[d] = "check"
    /\ \E installed \in (IF prepOk[d] THEN BOOLEAN ELSE {FALSE}) :
          Set(prepareDestinationServer(St, d, "ok", installed))

UploadWorkerTimer ==
    /\ pk = "pause"
    /\ pk' = "pause_ready"
    /\ UNCHANGED <<active, isPaused, isCancelled, job, zipInfo, items,
                   uploadedFiles, uploadComplete, processedFiles, pendingFiles,
                   dispatched,
                   main, prep, pkI, dw, task, bulk, cancelPc, jobResult, events,
                   prepOk, faults, badParts, staged, destFailed, sourceParts, stored,
                   servers, plan, retry, connections, clients, lastCall,
                   listing, panel, upload, otherJob, killed>>

UploadWorkerWake ==
    /\ pk = "pause_ready"
    /\ Set(uploadWorkerWake(St))

FindReturn ==
    /\ pk = "find"
    /\ \E o \in ExecOutcomes(St, Src), n \in 0..MaxBatches :
          Set(findReturn(St, o, n))

FileListReturn ==
    /\ pk = "filelist"
    /\ \E o \in ExecOutcomes(St, Src) : Set(fileListReturn(St, o))

ZipReturn ==
    /\ pk = "zip"
    /\ \E o \in ExecOutcomes(St, Src) : Set(zipReturn(St, o))

RmListReturn ==
    /\ pk = "rmlist"
    /\ \E o \in ExecOutcomes(St, Src) : Set(rmListReturn(St, o))

StatReturn ==
    /\ pk = "stat"
    /\ Set(statReturn(St))

UploadReturn ==
    /\ pk = "upload"
    /\ \E o \in DriverOutcomes(St, Src) : Set(uploadReturn(St, o))

RmPartReturn ==
    /\ pk = "rmpart"
    /\ \E o \in ExecOutcomes(St, Src) : Set(rmPartReturn(St, o))

DownloadWorkerFirstWake ==
    /\ dw = "sleep0"
    /\ Set(downloadWorkerLoop(St))

DownloadWorkerTimer ==
    /\ dw = "sleep"
    /\ dw' = "ready"
    /\ UNCHANGED <<active, isPaused, isCancelled, job, zipInfo, items,
                   uploadedFiles, uploadComplete, processedFiles, pendingFiles,
                   dispatched,
                   main, prep, pk, pkI, task, bulk, cancelPc, jobResult, events,
                   prepOk, faults, badParts, staged, destFailed, sourceParts, stored,
                   servers, plan, retry, connections, clients, lastCall,
                   listing, panel, upload, otherJob, killed>>

DownloadWorkerWake ==
    /\ dw = "ready"
    /\ Set(downloadWorkerLoop(St))

DownloadReturn(d) ==
    /\ task[d] = "download"
    /\ \E o \in DownloadOutcomes(St, d) : Set(downloadReturn(St, d, o))

UnzipReturn(d) ==
    /\ task[d] = "unzip"
    /\ \E o \in ExecOutcomes(St, d) : Set(unzipReturn(St, d, o))

RmTmpReturn(d) ==
    /\ task[d] = "rmtmp"
    /\ \E o \in ExecOutcomes(St, d) : Set(rmTmpReturn(St, d, o))

MvReturn(d) ==
    /\ task[d] = "mv"
    /\ \E o \in ExecOutcomes(St, d) : Set(mvReturn(St, d, o))

DeleteReturn(d) ==
    /\ task[d] = "delete"
    /\ \E o \in DriverOutcomes(St, d) : Set(deleteReturn(St, d, o))

BulkUnzipReturn(d) ==
    /\ bulk[d] = "unzip"
    /\ \E o \in ExecOutcomes(St, d) : Set(bulkUnzipReturn(St, d, o))

BulkRmReturn(d) ==
    /\ bulk[d] = "rm"
    /\ Set(bulkRmReturn(St, d))

PauseJob ==
    /\ active
    /\ ~isPaused
    /\ Set(pauseJob(St))

ResumeJob ==
    /\ active
    /\ isPaused
    /\ Set(resumeJob(St))

CancelJob ==
    /\ active
    /\ cancelPc = "idle"
    /\ Set(cancelJob(St))

CancelJobReturn ==
    /\ cancelPc = "killing"
    /\ Set(cancelJobReturn(St))

\* The steps of startJob's setup and of the upload worker, which run one after
\* the other on the source: remote commands returning, the pause timer firing.
SourceSteps ==
    \/ SrcConnectReturn
    \/ SrcCheckReturn
    \/ SrcInstallReturn
    \/ SrcConfigReturn
    \/ PrepareSourceFilesReturn
    \/ UploadWorkerTimer
    \/ UploadWorkerWake
    \/ FindReturn
    \/ FileListReturn
    \/ ZipReturn
    \/ RmListReturn
    \/ StatReturn
    \/ UploadReturn
    \/ RmPartReturn

\* The download worker's poll timers.
DownloadWorkerSteps ==
    \/ DownloadWorkerFirstWake
    \/ DownloadWorkerTimer
    \/ DownloadWorkerWake

\* The steps on destination d, which run one after the other: preparation,
\* downloadFileToDestination, bulk extract.
DestinationSteps(d) ==
    \/ PrepareDestinationReturn(d)
    \/ PrepareDestinationCheckReturn(d)
    \/ DownloadReturn(d)
    \/ UnzipReturn(d)
    \/ RmTmpReturn(d)
    \/ MvReturn(d)
    \/ DeleteReturn(d)
    \/ BulkUnzipReturn(d)
    \/ BulkRmReturn(d)

\* rclone reports progress while the download on d runs.
DownloadProgress(d) ==
    /\ task[d] = "download"
    /\ \E percent \in Percents : Set(downloadProgress(St, d, percent))

\* The operator deletes a host from the catalog, at any time.
DeleteServer(id) ==
    /\ id \in servers
    /\ Set(deleteServer(St, id))

\* The operator asks for a retry of the item (once in a run), at any time.
RetryItem ==
    /\ ~retry.called
    /\ \E known \in BOOLEAN : retry' = retryItem(retry, St, known)
    /\ UNCHANGED <<jobVars, plan, connections, clients, lastCall, listing, panel,
                   upload, otherJob, killed>>

\* The operator's requests.
Control ==
    \/ PauseJob
    \/ ResumeJob
    \/ CancelJob

Next ==
    \/ StartJob
    \/ SourceSteps
    \/ DownloadWorkerSteps
    \/ \E d \in Dests : DestinationSteps(d)
    \/ CancelJobReturn
    \/ Control

Spec == Init /\ [][Next]_vars

(***************************************************************************)
(* Scheduling.  Every remote command returns and every timer fires, and    *)
(* the event loop runs the callback of an event that has arrived: a return *)
(* that stays enabled is eventually taken.  The steps of one sequential    *)
(* task exclude each other, so fairness is stated per task.  The           *)
(* operator's requests are under no such obligation.                       *)
(***************************************************************************)
Fairness ==
    /\ WF_vars(SourceSteps)
    /\ WF_vars(DownloadWorkerSteps)
    /\ \A d \in Dests : WF_vars(DestinationSteps(d))
    /\ WF_vars(CancelJobReturn)

FairSpec == Init /\ [][Next]_vars /\ Fairness

\* The job with the progress reports of the downloads.
ProgressNext == Next \/ \E d \in Dests : DownloadProgress(d)

ProgressSpec == Init /\ [][ProgressNext]_vars

\* The job with deletions from the catalog.
CatalogNext == Next \/ \E id \in Hosts : DeleteServer(id)

CatalogSpec == Init /\ [][CatalogNext]_vars

\* The job with a retry request.
RetryNext == Next \/ RetryItem

RetrySpec == Init /\ [][RetryNext]_vars

(***************************************************************************)
(* The planner on its own: every file list and size limit within the       *)
(* bounds, grouped as processItem groups them.                             *)
(***************************************************************************)
FileLists == UNION {[1..n -> 0..MaxSize] : n \in 0..MaxFiles}

PlannerInit ==
    /\ InitJob
    /\ ServicesInit
    /\ listing = NoListing
    /\ upload = NoUpload
    /\ plan \in {[files |-> f, limitBytes |-> b, batches |-> <<>>, done |-> FALSE] :
                     f \in FileLists, b \in 0..MaxLimit}

Plan ==
    /\ ~plan.done
    /\ plan' = [plan EXCEPT !.batches = Batches(plan.files, plan.limitBytes),
                            !.done = TRUE]
    /\ UNCHANGED <<jobVars, retry, connections, clients, lastCall, listing, panel,
                   upload, otherJob, killed>>

PlannerSpec == PlannerInit /\ [][Plan]_vars

(***************************************************************************)
(* SSHService: the pool of sessions.  connections maps a host id to the    *)
(* client pooled for it (its index in clients; 0: no entry).  A client is  *)
(* "connecting" from client.connect until 'ready' or 'error'; the handlers *)
(* registered by connect stay on the client for its whole life.            *)
(***************************************************************************)
NoConnection == "No connection found"

\* The hosts whose sessions are followed.
PoolIds == {Src, destinationServerIds[1]}

\* this.connections.delete(id)
evictNot(c, id) == c
evict(c, id) == [c EXCEPT ![id] = 0]

PoolUnchanged ==
    UNCHANGED <<jobVars, plan, retry, listing, panel, upload, otherJob, killed>>

\* connect(config): an existing entry is reused (success=true at once);
\* otherwise a client is created and dialed, or reading the key file throws
\* before that (success=false at once).
Connect(id) ==
    /\ \/ UNCHANGED clients
       \/ /\ connections[id] = 0
          /\ Len(clients) < MaxClients
          /\ clients' = Append(clients, [id |-> id, state |-> "connecting"])
    /\ UNCHANGED <<connections, lastCall>>
    /\ PoolUnchanged

\* client.on('ready'): the client is pooled and connect resolves success=true.
OnReady(k) ==
    /\ clients[k].state = "connecting"
    /\ connections' = [connections EXCEPT ![clients[k].id] = k]
    /\ clients' = [clients EXCEPT ![k].state = "ready"]
    /\ UNCHANGED lastCall
    /\ PoolUnchanged

\* client.on('error'), while connecting (connect resolves success=false) or later.
OnError(k) ==
    /\ clients[k].state \in {"connecting", "ready"}
    /\ connections' = evict(connections, clients[k].id)
    /\ clients' = [clients EXCEPT ![k].state = "error"]
    /\ UNCHANGED lastCall
    /\ PoolUnchanged

\* client.on('end'): the peer, or client.end(), has ended the session.
OnEnd(k) ==
    /\ clients[k].state \in {"ready", "ending"}
    /\ connections' = evict(connections, clients[k].id)
    /\ clients' = [clients EXCEPT ![k].state = "ended"]
    /\ UNCHANGED lastCall
    /\ PoolUnchanged

\* client.on('close'): the socket is closed.
OnClose(k) ==
    /\ clients[k].state \in {"ready", "ending", "ended", "error"}
    /\ connections' = evict(connections, clients[k].id)
    /\ clients' = [clients EXCEPT ![k].state = "closed"]
    /\ UNCHANGED lastCall
    /\ PoolUnchanged

\* disconnect(id): the pooled client is ended and its entry deleted.
Disconnect(id) ==
    /\ connections[id] # 0
    /\ clients' = [clients EXCEPT ![connections[id]].state = "ending"]
    /\ connections' = evict(connections, id)
    /\ UNCHANGED lastCall
    /\ PoolUnchanged

\* exec, execWithProgress, uploadFile, downloadFile, listDirectory: each of
\* them starts with the same lookup; the call throws when the pool has no
\* entry for id, and runs on the pooled client otherwise.  gone records
\* whether a session of id had been ended before the call.
UseSession(id) ==
    /\ lastCall' = [id |-> id,
                    result |-> IF connections[id] = 0 THEN NoConnection ELSE "run",
                    gone |-> \E k \in 1..Len(clients) :
                                /\ clients[k].id = id
                                /\ clients[k].state \in {"ending", "ended"}]
    /\ UNCHANGED <<connections, clients>>
    /\ PoolUnchanged

PoolNext ==
    \/ \E id \in PoolIds : Connect(id)
    \/ \E id \in PoolIds : Disconnect(id)
    \/ \E k \in 1..Len(clients) : OnReady(k)
    \/ \E k \in 1..Len(clients) : OnError(k)
    \/ \E k \in 1..Len(clients) : OnEnd(k)
    \/ \E k \in 1..Len(clients) : OnClose(k)
    \/ \E id \in PoolIds : UseSession(id)

PoolSpec == Init /\ [][PoolNext]_vars

(***************************************************************************)
(* SSHService.listDirectory.  An entry of the directory read by            *)
(* sftp.readdir has a name (a number: the place of the file name in the    *)
(* order of localeCompare; the names of one directory differ), is hidden   *)
(* when its file name starts with '.', and is a directory or a file.       *)
(***************************************************************************)
\* options?.limit || 50
DefaultLimit == 50

\* The sort's comparator is negative: a goes before b.
byName(a, b) == a.name < b.name
goesBefore(a, b) ==
    IF a.type # b.type THEN a.type = "directory" ELSE a.name < b.name

\* The sort: every element is put after the last one that does not go after it.
RECURSIVE sort(_)
sort(seq) ==
    IF seq = <<>> THEN <<>>
    ELSE LET rest == sort(SubSeq(seq, 1, Len(seq) - 1))
             x == seq[Len(seq)]
             smaller == {k \in 1..Len(rest) : ~goesBefore(x, rest[k])}
             at == IF smaller = {} THEN 0
                   ELSE CHOOSE k \in smaller : \A j \in smaller : j <= k
         IN  SubSeq(rest, 1, at) \o <<x>> \o SubSeq(rest, at + 1, Len(rest))

\* Array.prototype.slice(start, end), 0-based, end excluded.
slice(seq, start, end) ==
    SubSeq(seq, start + 1, IF end < Len(seq) THEN end ELSE Len(seq))

\* filter, map, sort, slice of listDirectory for the entries read.
listDirectory(list, optLimit, optOffset) ==
    LET limit == IF optLimit = 0 THEN DefaultLimit ELSE optLimit
        offset == optOffset
        visible(item) == ~item.hidden
        shown == SelectSeq(list, visible)
        allItems == sort([k \in 1..Len(shown) |->
                             [name |-> shown[k].name,
                              type |-> IF shown[k].isDirectory THEN "directory"
                                       ELSE "file"]])
        total == Len(allItems)
    IN  [items |-> slice(allItems, offset, offset + limit),
         total |-> total,
         hasMore |-> offset + limit < total]

\* The directories readdir may return: up to MaxEntries entries with different
\* names, in any order.
Directories ==
    LET Entry == [name : 1..MaxEntries, hidden : BOOLEAN, isDirectory : BOOLEAN]
        Lists == UNION {[1..n -> Entry] : n \in 0..MaxEntries}
    IN  {l \in Lists : \A i, k \in 1..Len(l) : i # k => l[i].name # l[k].name}

ListInit ==
    /\ InitJob
    /\ ServicesInit
    /\ plan = NoPlan
    /\ upload = NoUpload
    /\ listing \in {[NoListing EXCEPT !.list = l, !.limit = limit,
                                      !.offset = offset] :
                        l \in Directories, limit \in 0..MaxEntries,
                        offset \in 0..(MaxEntries + 1)}

\* listDirectory is called and readdir returns.
ListDirectory ==
    /\ ~listing.done
    /\ LET r == listDirectory(listing.list, listing.limit, listing.offset)
       IN  listing' = [listing EXCEPT !.items = r.items, !.total = r.total,
                                      !.hasMore = r.hasMore, !.done = TRUE]
    /\ UNCHANGED <<jobVars, plan, retry, connections, clients, lastCall, panel,
                   upload, otherJob, killed>>

ListSpec == ListInit /\ [][ListDirectory]_vars

(***************************************************************************)
(* TransferPanel: the operator edits the config of a transfer and starts   *)
(* it.  A destination block is its place in config.destinations and holds *)
(* the server id chosen for it and its destination folder.  The job has    *)
(* one destinationFolder, which the mv, unzip and bulk extract commands of *)
(* every destination use.                                                  *)
(***************************************************************************)
\* The server list of the renderer's store, in its order.
ServerList == <<Src>> \o destinationServerIds

\* servers.filter(s => s.id !== config.sourceServerId)
availableDestServers ==
    LET other(id) == id # panel.sourceServerId
    IN  SelectSeq(ServerList, other)

\* config.sourceServerId && config.sourceFolder && config.destinations.length > 0
canStart ==
    /\ panel.sourceServerId # ""
    /\ panel.sourceFolder # ""
    /\ Len(panel.destinations) > 0

PanelUnchanged ==
    UNCHANGED <<jobVars, plan, retry, connections, clients, lastCall, listing,
                upload, otherJob, killed>>

\* handleConfigChange for the source server select and the source folder input.
HandleConfigChange ==
    /\ \/ \E id \in Hosts \cup {""} :
             panel' = [panel EXCEPT !.sourceServerId = id]
       \/ \E folder \in {"", "folder"} :
             panel' = [panel EXCEPT !.sourceFolder = folder]
    /\ PanelUnchanged

\* handleAddDestination: a block with the first available server is appended.
HandleAddDestination ==
    /\ Len(panel.destinations) < MaxDestinations
    /\ Len(availableDestServers) # 0
    /\ panel' = [panel EXCEPT !.destinations =
                    Append(@, [serverId |-> availableDestServers[1],
                               destinationFolder |-> "/home"])]
    /\ PanelUnchanged

\* handleRemoveDestination: the block is filtered out.
HandleRemoveDestination ==
    /\ \E i \in 1..Len(panel.destinations) :
          panel' = [panel EXCEPT !.destinations =
                       [k \in 1..(Len(@) - 1) |-> IF k < i THEN @[k] ELSE @[k + 1]]]
    /\ PanelUnchanged

\* handleDestinationChange for a block's server select, whose options are the
\* available servers, and for its destination folder input.
HandleDestinationChange ==
    /\ \E i \in 1..Len(panel.destinations) :
          \/ \E k \in 1..Len(availableDestServers) :
                panel' = [panel EXCEPT !.destinations[i].serverId =
                                           availableDestServers[k]]
          \/ \E folder \in {"/home", "/data"} :
                panel' = [panel EXCEPT !.destinations[i].destinationFolder = folder]
    /\ PanelUnchanged

\* handleStart (the Start button is disabled unless canStart): the job is
\* created from the config and handed to startJob.
HandleStart ==
    /\ canStart
    /\ panel' = [panel EXCEPT
                    !.created = TRUE,
                    !.job = [sourceServerId |-> panel.sourceServerId,
                             sourceFolder |-> panel.sourceFolder,
                             destinationServerIds |->
                                 [i \in 1..Len(panel.destinations) |->
                                     panel.destinations[i].serverId],
                             destinationFolder |->
                                 panel.destinations[1].destinationFolder]]
    /\ PanelUnchanged

PanelNext ==
    \/ HandleConfigChange
    \/ HandleAddDestination
    \/ HandleRemoveDestination
    \/ HandleDestinationChange
    \/ HandleStart

PanelSpec == Init /\ [][PanelNext]_vars

(***************************************************************************)
(* processItem: the progress callback given to rcloneService.upload, for   *)
(* the upload of the part of 0-based index i of n parts (split) or of the  *)
(* single archive.  rclone's output is parsed into percent, an integer;    *)
(* only percentages in 0..100 are followed.                                *)
(***************************************************************************)
\* Math.round(((i + percent / 100) / batches.length) * 100): the values the
\* expression may have.  The quotient is computed in binary floating point:
\* where the exact value (100 * i + percent) / n is half-way between two
\* integers, the computed value may fall on either side of the half, and
\* Math.round gives the one integer or the other.
overallPercent(i, percent, n) ==
    LET exact == 100 * i + percent
        q == exact \div n
        twice == 2 * (exact % n)
    IN  IF twice < n THEN {q} ELSE IF twice > n THEN {q + 1} ELSE {q, q + 1}

\* The callback: item.progress is set and broadcast, and a log line is written
\* when percent >= lastLoggedPercent + 20 (split) or + 10 (single).
onProgressNoFloor(u, percent, overall) ==
    LET step == IF u.split THEN 20 ELSE 10
        log == percent >= u.lastLoggedPercent + step
    IN  [u EXCEPT !.percent = percent,
                  !.progress = IF u.split THEN overall ELSE percent,
                  !.lines = IF log THEN @ + 1 ELSE @,
                  !.lastLoggedPercent = IF log THEN percent ELSE @]
onProgress(u, percent, overall) ==
    LET step == IF u.split THEN 20 ELSE 10
        log == percent >= u.lastLoggedPercent + step
    IN  [u EXCEPT !.percent = percent,
                  !.progress = IF u.split THEN overall ELSE percent,
                  !.lines = IF log THEN @ + 1 ELSE @,
                  !.lastLoggedPercent =
                      IF log THEN (percent \div step) * step ELSE @]

\* The upload of a part, or of the single archive, has been started:
\* lastLoggedPercent is 0 and Math.round((i / batches.length) * 100), or 0,
\* has been broadcast.
UploadInit ==
    /\ InitJob
    /\ ServicesInit
    /\ plan = NoPlan
    /\ listing = NoListing
    /\ upload \in
          {[NoUpload EXCEPT !.split = TRUE, !.n = n, !.i = i, !.progress = first] :
               n \in 1..MaxParts, i \in 0..(MaxParts - 1), first \in 0..100}
          \cup {NoUpload}
    /\ upload.i < upload.n
    /\ upload.progress \in (IF upload.split
                            THEN overallPercent(upload.i, 0, upload.n) ELSE {0})

\* A chunk of rclone's output with a percentage has arrived.
OnProgress ==
    /\ \E percent \in 0..100 :
          \E overall \in overallPercent(upload.i, percent, upload.n) :
              upload' = onProgress(upload, percent, overall)
    /\ UNCHANGED <<jobVars, plan, retry, connections, clients, lastCall, listing,
                   panel, otherJob, killed>>

UploadSpec == UploadInit /\ [][OnProgress]_vars

(***************************************************************************)
(* Properties.                                                             *)
(***************************************************************************)
\* The pipeline commands in flight: <<command, host, part>>.
InFlight ==
    (IF pk \in {"zip", "upload"} THEN {<<pk, Src, pkI>>} ELSE {})
    \cup {<<task[d], d, Head(pendingFiles)>> :
             d \in {e \in Dests : task[e] \in {"download", "mv", "unzip"}}}
    \cup {<<"bulk unzip", d, 0>> : d \in {e \in Dests : bulk[e] = "unzip"}}

\* The parts published so far.
Published == {events[i] : i \in 1..Len(events)}

(***************************************************************************)
(* Another job, with an id of its own, that runs at the same time on hosts *)
(* of this job: its source is Src and its one destination is the first     *)
(* destination.  activeJobs, downloadQueue and uploadedFiles are maps      *)
(* keyed by job id: the other job's entry is otherJob.  Its pipeline is    *)
(* not followed, only its entry in activeJobs and what its cancelJob does  *)
(* on the hosts.                                                           *)
(***************************************************************************)
\* startJob of the other job: activeJobs.set(job.id, ...).
OtherStartJob ==
    /\ ~otherJob.active
    /\ otherJob.cancelPc = "idle"
    /\ otherJob' = [otherJob EXCEPT !.active = TRUE]
    /\ UNCHANGED <<jobVars, plan, retry, connections, clients, lastCall, listing,
                   panel, upload, killed>>

OtherPauseJob ==
    /\ otherJob.active
    /\ ~otherJob.isPaused
    /\ otherJob' = pauseJob(otherJob)
    /\ UNCHANGED <<jobVars, plan, retry, connections, clients, lastCall, listing,
                   panel, upload, killed>>

OtherResumeJob ==
    /\ otherJob.active
    /\ otherJob.isPaused
    /\ otherJob' = resumeJob(otherJob)
    /\ UNCHANGED <<jobVars, plan, retry, connections, clients, lastCall, listing,
                   panel, upload, killed>>

OtherCancelJob ==
    /\ otherJob.active
    /\ otherJob.cancelPc = "idle"
    /\ otherJob' = cancelJob(otherJob)
    /\ UNCHANGED <<jobVars, plan, retry, connections, clients, lastCall, listing,
                   panel, upload, killed>>

\* The pkill commands of the other job's cancelJob have run: on its source
\* pkill -f "zip.*transfer_" and pkill -f "rclone.*copyto", on its destination
\* pkill -f "rclone.*copyto" and pkill -f "unzip".  pkill -f matches the command
\* lines of all processes of the host: the zip of any job's transfer_ archive,
\* any rclone copyto (upload or download), any unzip.
OtherCancelJobReturn ==
    /\ otherJob.cancelPc = "killing"
    /\ otherJob' = cancelJobReturn(otherJob)
    /\ killed' = killed \cup
          {c \in InFlight :
              \/ c[2] = Src /\ c[1] \in {"zip", "upload", "download"}
              \/ /\ c[2] = destinationServerIds[1]
                 /\ c[1] \in {"upload", "download", "unzip", "bulk unzip"}}
    /\ UNCHANGED <<jobVars, plan, retry, connections, clients, lastCall, listing,
                   panel, upload>>

\* The job with the other job's start, pause, resume and cancel.
SharedNext ==
    \/ Next
    \/ OtherStartJob
    \/ OtherPauseJob
    \/ OtherResumeJob
    \/ OtherCancelJob
    \/ OtherCancelJobReturn

SharedSpec == Init /\ [][SharedNext]_vars

\* C1: once cancelJob has set isCancelled, the job starts no new zip, upload,
\* download, mv, unzip or bulk unzip command: the commands in flight after any
\* later step were already in flight before it.
NoNewCommandAfterCancel == [][isCancelled => InFlight' \subseteq InFlight]_vars

\* C2: a job that is cancelled while it is paused, and is not resumed, eventually
\* returns from startJob (given that every remote command returns and every
\* timer fires).
CancelTerminates ==
    (isCancelled /\ isPaused) ~> (main = "returned" \/ ~isPaused)

\* C3: a started job that is never paused nor cancelled eventually returns from
\* startJob (given that every remote command returns and every timer fires).
StartJobReturns == active ~> (isPaused \/ isCancelled \/ main = "returned")

\* C4: once the file list, the archive or the upload of a part has failed, no
\* later part is packaged or published, no bulk extract is started, no item
\* becomes 'completed' and the job is not reported as completed.  Stated for a
\* job that has not been cancelled.
SourceFailureAborts ==
    [][(badParts # {} /\ ~isCancelled) =>
          /\ pkI' = pkI
          /\ events' = events
          /\ \A d \in Dests : bulk[d] = "idle" => bulk'[d] = "idle"
          /\ \A k \in DOMAIN items :
                items'[k].status = "completed" => items[k].status = "completed"
          /\ jobResult' = "completed" => jobResult = "completed"]_vars

\* C5: a part is published, and the item marked 'uploaded', only if the part's
\* archive was created and its upload succeeded.
PublishedOnlyIfUploaded ==
    /\ Published \cap badParts = {}
    /\ \A k \in DOMAIN items : items[k].status = "uploaded" => badParts = {}

\* C6: for a split job with autoExtract, a bulk extract has been started only if
\* every destination has staged every part of the job.  Stated for a job that
\* has not been cancelled.
ExtractAfterAllStaged ==
    (/\ ~isCancelled
     /\ job.autoExtract /\ zipInfo.needsSplit
     /\ \E d \in Dests : bulk[d] # "idle")
        => \A p \in 1..zipInfo.actualParts, d \in Dests : <<p, d>> \in staged

\* C7: on a destination whose preparation failed while the others' succeeded, no
\* download is in flight and every DestinationProgress record is 'failed' with
\* an error.
PrepFailureIsolated ==
    \A d \in Dests :
        (~prepOk[d] /\ \A e \in Dests \ {d} : prepOk[e]) =>
            /\ task[d] # "download"
            /\ \A k \in 1..Len(uploadedFiles) :
                  /\ uploadedFiles[k].destinations[d].status = "failed"
                  /\ uploadedFiles[k].destinations[d].error # NoError

\* C8: when downloadFileToDestination of part P on destination d ends after one
\* of its steps failed, the record (P, d) is 'failed' with an error, and the
\* records of the other destinations for P are as they were.
DestFailureRecorded ==
    [][\A d \in Dests :
          (/\ task[d] \notin {"idle", "done"}
           /\ \/ task'[d] \in {"idle", "done"}
              \/ pendingFiles' = <<>>
              \/ Head(pendingFiles') # Head(pendingFiles)
           /\ <<Head(pendingFiles), d>> \in destFailed'
           /\ IndexOf(uploadedFiles', Head(pendingFiles)) # 0)
          => LET P == Head(pendingFiles)
                 now == uploadedFiles'[IndexOf(uploadedFiles', P)].destinations
                 before == uploadedFiles[IndexOf(uploadedFiles, P)].destinations
             IN  /\ now[d].status = "failed"
                 /\ now[d].error # NoError
                 /\ \A e \in Dests \ {d} : now[e] = before[e]]_vars

\* C9: the PartUploaded events of a job carry strictly ascending part indices:
\* none is published twice or out of order.
EventsAscending ==
    \A i, j \in 1..Len(events) : i < j => events[i] < events[j]

TwoPartsPublished == Len(events) >= 2

\* The upload command of part p has returned.
UploadReturned(p) == p < pkI \/ (p = pkI /\ pk \in {"rmpart", "done"})

\* C10: a destination's record for part p leaves 'pending', and a download task
\* works on p, only after the upload of p has returned and p was published.
DownloadOnlyAfterUpload ==
    /\ \A k \in 1..Len(uploadedFiles), d \in Dests :
          uploadedFiles[k].destinations[d].status # "pending" =>
              /\ uploadedFiles[k].id \in Published
              /\ UploadReturned(uploadedFiles[k].id)
    /\ \A d \in Dests :
          task[d] # "idle" =>
              /\ Head(pendingFiles) \in Published
              /\ UploadReturned(Head(pendingFiles))

PartDownloading ==
    \E k \in 1..Len(uploadedFiles), d \in Dests :
        /\ uploadedFiles[k].destinations[d].status = "downloading"
        /\ task[d] = "download"

\* C11: parts are dispatched in arrival order, one part at a time: a record of a
\* later part has left 'pending' only if every destination's record of every
\* earlier part is 'completed' or 'failed'.
DispatchInOrder ==
    \A k, k2 \in 1..Len(uploadedFiles) :
        k < k2 =>
            \A d, e \in Dests :
                uploadedFiles[k2].destinations[d].status # "pending" =>
                    uploadedFiles[k].destinations[e].status \in {"completed", "failed"}

\* The tasks of all destinations for the second part are in flight together.
SecondPartConcurrent ==
    /\ Len(uploadedFiles) >= 2
    /\ \A d \in Dests :
          /\ task[d] = "download"
          /\ uploadedFiles[2].destinations[d].status = "downloading"

\* C12: while isPaused is set the job starts no new zip, upload, download, mv,
\* unzip or bulk unzip command.
NoNewCommandWhilePaused ==
    [][(isPaused /\ isPaused') => InFlight' \subseteq InFlight]_vars

\* C13: once the job is cancelled no item becomes 'completed' and the job is
\* not reported as completed.
CancelledNeverCompleted ==
    [][isCancelled =>
          /\ \A k \in DOMAIN items :
                (k \in DOMAIN items' /\ items'[k].status = "completed")
                    => items[k].status = "completed"
          /\ jobResult' = "completed" => jobResult = "completed"]_vars

\* C14: a job that was not cancelled is reported as completed only if some
\* destination had no failed step on any published part.
CompletedNeedsOneDestination ==
    (~isCancelled /\ jobResult = "completed") =>
        \E d \in Dests : \A p \in Published : <<p, d>> \notin destFailed

\* C15: the job is reported as completed only after every published part was
\* processed by every destination, no task is left in flight and, for a split
\* job with autoExtract, the bulk extract has returned on every destination.
CompletedAfterAllProcessed ==
    jobResult = "completed" =>
        /\ Published \subseteq processedFiles
        /\ \A d \in Dests : task[d] = "idle" /\ bulk[d] \in {"idle", "done"}
        /\ (job.autoExtract /\ zipInfo.needsSplit) =>
               \A d \in Dests : bulk[d] = "done"

\* C16: with deleteFromDrive, no destination has the store delete of a part in
\* flight while another destination's download of that part is in flight.
DeleteAfterAllDownloaded ==
    \A d, e \in Dests :
        ~(task[d] = "delete" /\ task[e] = "download")

\* The total size of a batch.
RECURSIVE BatchSize(_, _)
BatchSize(files, b) ==
    IF b = <<>> THEN 0 ELSE files[Head(b)] + BatchSize(files, Tail(b))

\* The batches one after the other.
RECURSIVE Concat(_)
Concat(bs) == IF bs = <<>> THEN <<>> ELSE Head(bs) \o Concat(Tail(bs))

\* C17: every batch the planner produces is non-empty and either fits the
\* limit or holds a single file.
BatchesFitLimit ==
    plan.done =>
        \A m \in 1..Len(plan.batches) :
            /\ Len(plan.batches[m]) >= 1
            /\ \/ BatchSize(plan.files, plan.batches[m]) <= plan.limitBytes
               \/ Len(plan.batches[m]) = 1

\* A plan with a batch of several files that fits and a batch of one oversized
\* file.
MixedPlan ==
    /\ plan.done
    /\ \E m \in 1..Len(plan.batches) : Len(plan.batches[m]) >= 2
    /\ \E m \in 1..Len(plan.batches) :
          BatchSize(plan.files, plan.batches[m]) > plan.limitBytes

\* C18: the batches partition the enumerated files: concatenated in order they
\* are the files in enumeration order, each exactly once.
BatchesPartition ==
    plan.done =>
        Concat(plan.batches) = [i \in 1..Len(plan.files) |-> i]

\* A plan of three files in more than one batch.
SeveralBatches ==
    plan.done /\ Len(plan.files) = 3 /\ Len(plan.batches) >= 2

\* C19: the planner packs in enumeration order without reordering: an
\* oversized file is alone in its batch, files before it never share a batch
\* with files after it, and a batch is closed only by an oversized file or by a
\* file that would not fit.
PlannerKeepsOrder ==
    plan.done =>
        LET bs == plan.batches
            size(i) == plan.files[i]
            B == plan.limitBytes
            In(i, m) == \E x \in 1..Len(bs[m]) : bs[m][x] = i
        IN  /\ \A i \in 1..Len(plan.files), m \in 1..Len(bs) :
                  (size(i) > B /\ In(i, m)) => bs[m] = <<i>>
            /\ \A i, j, k \in 1..Len(plan.files), m \in 1..Len(bs) :
                  (i < j /\ j < k /\ size(j) > B) => ~(In(i, m) /\ In(k, m))
            /\ \A m \in 1..(Len(bs) - 1) :
                  \/ size(Head(bs[m])) > B
                  \/ size(Head(bs[m + 1])) > B
                  \/ BatchSize(plan.files, bs[m]) + size(Head(bs[m + 1])) > B

\* Files a, b, c of sizes 1, 3, 1 with limit 2 (a and c would fit together, b is
\* oversized) give the batches [a], [b], [c].
OversizedInTheMiddle ==
    /\ plan.done
    /\ plan.files = <<1, 3, 1>>
    /\ plan.limitBytes = 2
    /\ plan.batches = << <<1>>, <<2>>, <<3>> >>

\* C20: a published archive has a partNNN name if and only if the job needs
\* splitting.
PartNameIffSplit ==
    \A k \in 1..Len(uploadedFiles) :
        (uploadedFiles[k].fileName = <<"base", "part", uploadedFiles[k].id, "zip">>)
            <=> zipInfo.needsSplit

\* C21: a file inventory that yields no files makes the job fail with a plan
\* error before anything is packaged: when the inventory command has returned
\* and processItem has ended without a batch, the item is failed with an error.
EmptyInventoryFails ==
    [][(pk = "find" /\ pk' = "done" /\ zipInfo'.actualParts = 0)
          => (items'[1].status = "failed" /\ items'[1].error # NoError)]_vars

\* C22: retryItem takes effect exactly when the item failed: called for the
\* item of the job while it is 'failed', it increments retryCount by exactly 1,
\* clears the error and re-runs the packager for that item; called for an item
\* that is not failed, or for an unknown job or item, it runs nothing.
RetryTakesEffect ==
    [][(~retry.called /\ retry'.called) =>
          IF retry'.failed
          THEN /\ retry'.pk # "idle"
               /\ retry'.item # <<>>
               /\ retry'.item[1].retryCount = items[1].retryCount + 1
               /\ retry'.item[1].error = NoError
          ELSE retry'.pk = "idle" /\ retry'.item = <<>>]_vars

\* The job and its hosts are at rest: startJob has returned and no command of
\* the job is in flight.
AtRest ==
    /\ main = "returned"
    /\ cancelPc # "killing"
    /\ pk \in {"idle", "done"}
    /\ \A d \in Dests : task[d] \in {"idle", "done"} /\ bulk[d] \in {"idle", "done"}

StatusRank(status) ==
    CASE status = "pending" -> 0
      [] status = "zipping" -> 1
      [] status = "uploading" -> 2
      [] status = "uploaded" -> 3
      [] status \in {"distributing", "downloading", "extracting"} -> 4
      [] OTHER -> 5

\* C24: the status of the item only moves forward along pending -> zipping ->
\* uploading -> uploaded -> distributing -> completed | failed, and
\* 'completed' and 'failed' are never left (no retry is requested here).
StatusOnlyForward ==
    [][(items # <<>> /\ items' # <<>> /\ ~isCancelled') =>
          /\ StatusRank(items'[1].status) >= StatusRank(items[1].status)
          /\ items[1].status \in {"completed", "failed"}
                 => items'[1].status = items[1].status]_vars

\* C25: for every part and destination the percentage is non-decreasing from
\* 'pending' to 'completed', whatever progress chunks the download tool
\* reports; it goes back to 0 only on the transition to 'failed' (no retry is
\* requested here).
PercentNonDecreasing ==
    [][\A k \in 1..Len(uploadedFiles), d \in Dests :
          (/\ k <= Len(uploadedFiles')
           /\ uploadedFiles'[k].id = uploadedFiles[k].id
           /\ uploadedFiles'[k].destinations[d].status # "failed")
          => uploadedFiles'[k].destinations[d].progress
                 >= uploadedFiles[k].destinations[d].progress]_vars

\* C26: a host cannot be deleted while it is referenced, as source or
\* destination, by an active job: while the job is active the catalog keeps
\* every host of the job.
NoDeleteWhileActive ==
    [][active => (Hosts \cap servers) \subseteq servers']_vars

\* C27: every job handed to the orchestrator has at least one destination and
\* a non-empty source folder, and its destination host ids are pairwise
\* distinct and distinct from the source host id.
JobWellFormed ==
    panel.created =>
        LET ids == panel.job.destinationServerIds
        IN  /\ Len(ids) >= 1
            /\ panel.job.sourceFolder # ""
            /\ \A i, k \in 1..Len(ids) : i # k => ids[i] # ids[k]
            /\ \A i \in 1..Len(ids) : ids[i] # panel.job.sourceServerId

\* C28: concurrent connect calls for the same host id are serialized and share
\* one session: while no session is pooled for an id, at most one session for
\* it is being dialed.
OneDialPerId ==
    \A id \in PoolIds :
        Cardinality({k \in 1..Len(clients) :
                        clients[k].id = id /\ clients[k].state = "connecting"}) <= 1

\* C29: after a session's close, end or error notification, or after
\* disconnect(id), the pool holds no entry for id; a call on id then fails
\* with 'No connection found' and dials nothing; and an entry only comes back
\* when a connect for id succeeds.
NoEntryAfterEviction ==
    [][/\ \A k \in 1..Len(clients) :
             (clients'[k].state # clients[k].state /\ clients'[k].state # "ready")
                 => connections'[clients[k].id] = 0
       /\ lastCall' # lastCall =>
             /\ connections[lastCall'.id] = 0 <=> lastCall'.result = NoConnection
             /\ clients' = clients /\ connections' = connections
       /\ \A id \in PoolIds :
             (connections[id] = 0 /\ connections'[id] # 0) =>
                 /\ clients[connections'[id]].state = "connecting"
                 /\ clients'[connections'[id]].state = "ready"]_vars

\* A call on a host fails with 'No connection found' after the session pooled
\* for it has ended.
CallAfterSessionEnded ==
    /\ lastCall.result = NoConnection
    /\ lastCall.gone
    /\ connections[lastCall.id] = 0

\* The pages of a directory at offsets offset, offset + limit, ... one after
\* the other.
RECURSIVE Pages(_, _, _)
Pages(list, limit, offset) ==
    LET r == listDirectory(list, limit, offset)
    IN  IF r.items = <<>> THEN <<>>
        ELSE r.items \o Pages(list, limit, offset + limit)

\* C30: listDirectory paginates over the sorted list of non-hidden entries
\* (directories first, then by name): for limit > 0 the pages at offsets 0,
\* limit, 2*limit, ... concatenate to that list without duplicates or
\* omissions, the items returned are its elements [offset, offset + limit),
\* total is the number of non-hidden entries and hasMore holds iff
\* offset + limit < total.
ListingPaginates ==
    (listing.done /\ listing.limit > 0) =>
        LET list == listing.list
            shown == {k \in 1..Len(list) : ~list[k].hidden}
            full == Pages(list, listing.limit, 0)
            last == IF listing.offset + listing.limit < Len(full)
                    THEN listing.offset + listing.limit ELSE Len(full)
        IN  /\ listing.total = Cardinality(shown)
            /\ listing.hasMore <=> listing.offset + listing.limit < listing.total
            /\ Len(full) = listing.total
            /\ \A k \in shown : \E i \in 1..Len(full) :
                  /\ full[i].name = list[k].name
                  /\ full[i].type = "directory" <=> list[k].isDirectory
            /\ \A i, j \in 1..Len(full) :
                  i < j => \/ full[i].type = "directory" /\ full[j].type = "file"
                           \/ full[i].type = full[j].type /\ full[i].name < full[j].name
            /\ listing.items = [i \in 1..(last - listing.offset) |->
                                   full[listing.offset + i]]

\* The second page of a directory with a hidden entry and a directory whose
\* name comes after a file's.
SecondPageListed ==
    /\ listing.done
    /\ listing.limit = 1
    /\ listing.offset = 1
    /\ listing.total = 2
    /\ Len(listing.list) = 3
    /\ Len(listing.items) = 1
    /\ listing.items[1].type = "file"
    /\ \E k \in 1..3 : /\ listing.list[k].isDirectory
                       /\ ~listing.list[k].hidden
                       /\ listing.list[k].name > listing.items[1].name

\* C31: in a split job with autoExtract the bulk extract runs exactly once per
\* destination, and only after all parts are staged on that destination: it
\* is started on d only when d has staged every part, it is never started on
\* d a second time, and a job reported as completed has run it on every
\* destination.  Stated for a job that has not been cancelled.
BulkExtractOncePerDestination ==
    [][(~isCancelled' /\ job'.autoExtract /\ zipInfo'.needsSplit) =>
          \A d \in Dests :
              /\ (bulk[d] # "unzip" /\ bulk'[d] = "unzip") =>
                     /\ bulk[d] = "idle"
                     /\ \A p \in 1..zipInfo.actualParts : <<p, d>> \in staged
              /\ (jobResult # "completed" /\ jobResult' = "completed") =>
                     bulk'[d] = "done"]_vars

\* C32: the pipeline overlaps stages.  A published part is dispatched at the
\* download worker's next poll whatever the packager is doing: the poll of an
\* active, not cancelled job with an unprocessed published part starts the
\* download of the first such part on every destination and leaves the
\* packager where it is; so the destinations download part i together while
\* the packager zips or uploads part i+1.
DispatchWhilePackaging ==
    [][(/\ dw \in {"sleep0", "ready"}
        /\ dw' # dw
        /\ active /\ ~isCancelled
        /\ \E k \in 1..Len(uploadedFiles) : uploadedFiles[k].id \notin processedFiles)
          => /\ \A d \in Dests : task'[d] = "download"
             /\ \A k \in 1..Len(uploadedFiles) :
                   Head(pendingFiles') = uploadedFiles[k].id =>
                       /\ uploadedFiles[k].id \notin processedFiles
                       /\ \A j \in 1..(k - 1) : uploadedFiles[j].id \in processedFiles
             /\ pk' = pk /\ pkI' = pkI]_vars

\* Both destinations are downloading part i while the packager is zipping or
\* uploading part i+1, in a run without failures.
PipelineOverlaps ==
    /\ faults = 0
    /\ pendingFiles # <<>>
    /\ \A d \in Dests : task[d] = "download"
    /\ pk \in {"zip", "upload"}
    /\ pkI = Head(pendingFiles) + 1

\* C33: in a split job with deleteAfterUpload at most one archive part of the
\* job is in the source's staging directory at any time: the zip of part i+1
\* is started only when every earlier part has been uploaded and removed from
\* the source.
OnePartOnSource ==
    [][(job'.deleteAfterUpload /\ zipInfo'.needsSplit) =>
          /\ Cardinality(sourceParts') <= 1
          /\ (pk # "zip" /\ pk' = "zip") =>
                 \A p \in 1..(pkI' - 1) :
                     /\ p \notin sourceParts'
                     /\ p \in Published'
                     /\ p \notin badParts']_vars

\* C34: for a split job of n parts, the job-level percentage reported while
\* the part of 0-based index i uploads at percentage p is
\* floor(((i + p/100)/n)*100) = (100*i + p) div n; it lies in 0..100 and does
\* not decrease as i or p grows.
OverallPercentIsFloor ==
    [][upload'.split =>
          /\ upload'.progress = (100 * upload.i + upload'.percent) \div upload.n
          /\ upload'.progress \in 0..100
          /\ \A i \in upload.i..(upload.n - 1), p \in 0..100 :
                (100 * i + p > 100 * upload.i + upload'.percent) =>
                    \A later \in overallPercent(i, p, upload.n) :
                        later >= upload'.progress]_vars

\* C35: the upload progress log is throttled to boundary crossings: a line is
\* written only when the reported percentage is at least one step (20 for a
\* split part, 10 for the single archive) above the last logged boundary; the
\* last logged boundary is a multiple of the step and grows with every line
\* written; so at most 5 lines are written for a split part and at most 10
\* for a single archive.
LogThrottled ==
    [][LET step == IF upload.split THEN 20 ELSE 10
       IN  /\ upload'.lines > upload.lines =>
                  /\ upload'.lines = upload.lines + 1
                  /\ upload'.percent >= upload.lastLoggedPercent + step
                  /\ upload'.lastLoggedPercent > upload.lastLoggedPercent
           /\ upload'.lines = upload.lines =>
                  upload'.lastLoggedPercent = upload.lastLoggedPercent
           /\ upload'.lastLoggedPercent % step = 0
           /\ upload'.lastLoggedPercent <= 100
           /\ upload'.lines * step <= upload'.lastLoggedPercent
           /\ upload'.lines <= (IF upload.split THEN 5 ELSE 10)]_vars

\* The upload of a split part has written its five lines, the last at 100%.
FiveLinesLogged ==
    /\ upload.split
    /\ upload.lines = 5
    /\ upload.lastLoggedPercent = 100
    /\ upload.percent = 100

\* C36: the session pooled for a host id is removed only by disconnect(id) or
\* by a close, end or error notification of that same session: when the entry
\* of id is deleted, the step is one of the pooled client itself, never the
\* late notification of an earlier or a losing client of the same id.
EvictedOnlyByOwnSession ==
    [][\A id \in PoolIds :
          (connections[id] # 0 /\ connections'[id] = 0) =>
              clients'[connections[id]].state # clients[connections[id]].state]_vars

\* C37: in a job that is not cancelled every published part is dispatched to
\* every destination exactly once: downloadFileToDestination is called at
\* most once per (part, destination), only for published parts and for all
\* destinations of a part together; a processed part was dispatched to every
\* destination; and when the job is reported as completed every published
\* part has been dispatched to every destination.
DispatchedExactlyOnce ==
    ~isCancelled =>
        LET calls == {dispatched[a] : a \in 1..Len(dispatched)}
        IN  /\ \A a, b \in 1..Len(dispatched) :
                  a # b => dispatched[a] # dispatched[b]
            /\ \A c \in calls :
                  c[1] \in Published /\ \A d \in Dests : <<c[1], d>> \in calls
            /\ \A p \in processedFiles, d \in Dests : <<p, d>> \in calls
            /\ jobResult = "completed" =>
                   \A p \in Published, d \in Dests : <<p, d>> \in calls

\* Two parts were published, each was dispatched to both destinations, and the
\* job is reported as completed.
TwoPartsDispatched ==
    /\ ~isCancelled
    /\ jobResult = "completed"
    /\ Len(events) = 2
    /\ dispatched = <<<<1, "d1">>, <<1, "d2">>, <<2, "d1">>, <<2, "d2">>>>

\* C38: whenever the bulk extract runs (autoExtract and needsSplit), every
\* archive published by the job and staged on a destination has a file name
\* matched by the pattern base.part*.zip of the bulk extract, so none is left
\* unextracted, also when the plan has exactly one batch.
BulkPatternMatchesAll ==
    (job.autoExtract /\ zipInfo.needsSplit /\ \E d \in Dests : bulk[d] = "unzip") =>
        \A k \in 1..Len(uploadedFiles) :
            (\E d \in Dests : <<uploadedFiles[k].id, d>> \in staged) =>
                LET name == uploadedFiles[k].fileName
                IN  /\ Len(name) = 4
                    /\ name[1] = "base" /\ name[2] = "part" /\ name[4] = "zip"

\* C39: each destination stages and extracts into its own configured folder:
\* the folder that the mv, unzip and bulk extract commands of the job use on
\* a destination is the folder configured in that destination's block.
\* Stated for a config whose blocks name different hosts, none the source.
PerDestinationFolder ==
    [][(/\ panel'.job # panel.job
        /\ \A i \in 1..Len(panel.destinations) :
              panel.destinations[i].serverId # panel.sourceServerId
        /\ \A i, k \in 1..Len(panel.destinations) :
              i # k => panel.destinations[i].serverId # panel.destinations[k].serverId)
          => \A i \in 1..Len(panel.destinations) :
                 panel'.job.destinationFolder =
                     panel.destinations[i].destinationFolder]_vars

\* C40: jobs with distinct ids do not interfere: pauseJob, resumeJob and
\* cancelJob of the other job change neither the pause and cancel flags, nor
\* the uploaded-files list, nor the items of this job, and the other job's
\* cancel kills no zip, upload, download or extract process of this job on a
\* host the two jobs share.
JobsIsolated ==
    [][otherJob' # otherJob =>
          /\ isPaused' = isPaused /\ isCancelled' = isCancelled
          /\ uploadedFiles' = uploadedFiles /\ items' = items
          /\ killed' = killed]_vars
====
